---- MODULE Spec2Model ----
(***************************************************************************)
(* Model of the personal-memory agent (src/finished/agent.py): the         *)
(* keyword-overlap retrieval engine, the router-response decoding and the  *)
(* per-turn state machine of agent_once inside main's read loop.           *)
(*                                                                         *)
(* Text is a sequence of one-character strings, so that strip, lower and   *)
(* the tokenizer's regular expression act on characters.  A Python value   *)
(* is a record [type, val]: a str holds its characters (or the segments of *)
(* an f-string), None holds nothing.                                       *)
(***************************************************************************)
EXTENDS Integers, Sequences, FiniteSets

VARIABLES
    pc,              \* main's position: start, input, call, exited, crashed
    configExists,    \* whether config.json exists (load_config)
    docs,            \* the files of ./docs in glob order
    chunks,          \* the corpus index built by load_doc_chunks
    line,            \* the line input() returned for this turn
    user_text,       \* the stripped line, agent_once's user_text
    state,           \* the turn's state: NONE, ROUTING, RETRIEVING, ANSWERING, DONE, RAISED
    router_out,      \* the first model call's response
    decision,        \* the decoded router object: a sequence of [k, v] members
    query,           \* the query handed to search_docs
    top_k,           \* the top_k handed to search_docs
    tool_result,     \* what search_docs returned
    answer_messages, \* the user-turn content of the second model call
    answer_out,      \* the second model call's response
    result,          \* the value agent_once returned
    exc,             \* the exception that left agent_once ("" when none)
    trail,           \* the states this turn went through, in order
    nChat,           \* model calls made in this turn
    nSearch,         \* search_docs calls made in this turn
    printed          \* what main printed for the last finished turn

vars == <<pc, configExists, docs, chunks, line, user_text, state, router_out,
          decision, query, top_k, tool_result, answer_messages, answer_out,
          result, exc, trail, nChat, nSearch, printed>>

-----------------------------------------------------------------------------
(* Bounds of the model *)

\* the longest router response, in symbols
MaxRaw == 4
\* the largest top_k tried on search_docs on its own
MaxTopK == 3

\* top_k as agent_once passes it
TopK == 3

-----------------------------------------------------------------------------
(* Python values *)

NoneV == [type |-> "NoneType", val |-> <<>>]

Str(s) == [type |-> "str", val |-> s]

IsStr(v) == v.type = "str"

\* a function's value before the function has produced one
Unset == [type |-> "unset", val |-> <<>>]

-----------------------------------------------------------------------------
(* Characters *)

UpperToLower ==
    [A |-> "a", B |-> "b", C |-> "c", D |-> "d", E |-> "e", F |-> "f", G |-> "g",
     H |-> "h", I |-> "i", J |-> "j", K |-> "k", L |-> "l", M |-> "m", N |-> "n",
     O |-> "o", P |-> "p", Q |-> "q", R |-> "r", S |-> "s", T |-> "t", U |-> "u",
     V |-> "v", W |-> "w", X |-> "x", Y |-> "y", Z |-> "z"]

\* the characters the tokenizer's class [a-z0-9'] accepts
TokenChars ==
    {"a", "b", "c", "d", "e", "f", "g", "h", "i", "j", "k", "l", "m", "n", "o",
     "p", "q", "r", "s", "t", "u", "v", "w", "x", "y", "z",
     "0", "1", "2", "3", "4", "5", "6", "7", "8", "9", "'"}

Whitespace == {" ", "\n", "\t", "\r"}

\* str.lower()
Lower(s) == [i \in 1..Len(s) |->
                IF s[i] \in DOMAIN UpperToLower THEN UpperToLower[s[i]] ELSE s[i]]

RECURSIVE LStrip(_)
LStrip(s) == IF s # <<>> /\ Head(s) \in Whitespace THEN LStrip(Tail(s)) ELSE s

RECURSIVE RStrip(_)
RStrip(s) ==
    IF s # <<>> /\ s[Len(s)] \in Whitespace THEN RStrip(SubSeq(s, 1, Len(s) - 1)) ELSE s

\* str.strip()
Strip(s) == RStrip(LStrip(s))

\* re.findall(r"[a-z0-9']+", s) as a set: the maximal runs of token characters
RECURSIVE FindAllTokens(_, _, _)
FindAllTokens(s, i, run) ==
    IF i > Len(s)
    THEN IF run = <<>> THEN {} ELSE {run}
    ELSE IF s[i] \in TokenChars
         THEN FindAllTokens(s, i + 1, Append(run, s[i]))
         ELSE (IF run = <<>> THEN {} ELSE {run}) \cup FindAllTokens(s, i + 1, <<>>)

\* _tokenize(text)
Tokenize(text) == FindAllTokens(Lower(text), 1, <<>>)

\* raw.split("\n\n"): the pieces between non-overlapping separators, left to right
RECURSIVE SplitBlank(_, _, _)
SplitBlank(s, i, piece) ==
    IF i > Len(s)
    THEN <<piece>>
    ELSE IF i < Len(s) /\ s[i] = "\n" /\ s[i + 1] = "\n"
         THEN <<piece>> \o SplitBlank(s, i + 2, <<>>)
         ELSE SplitBlank(s, i + 1, Append(piece, s[i]))

-----------------------------------------------------------------------------
(* Corpus index *)

\* the chunks of one file: its stripped, non-empty paragraphs
RECURSIVE FileChunks(_, _)
FileChunks(name, parts) ==
    IF parts = <<>>
    THEN <<>>
    ELSE LET p == Strip(Head(parts))
         IN  (IF p = <<>>
              THEN <<>>
              ELSE <<[source |-> name, text |-> p, tokens |-> Tokenize(p)]>>)
             \o FileChunks(name, Tail(parts))

\* load_doc_chunks(docs_dir): the files matching *.txt, each split into chunks
RECURSIVE load_doc_chunks(_)
load_doc_chunks(files) ==
    IF files = <<>>
    THEN <<>>
    ELSE LET f == Head(files)
         IN  (IF f.txt THEN FileChunks(f.name, SplitBlank(f.raw, 1, <<>>)) ELSE <<>>)
             \o load_doc_chunks(Tail(files))

-----------------------------------------------------------------------------
(* Retrieval engine *)

DigitChar == <<"0", "1", "2", "3", "4", "5", "6", "7", "8", "9">>

\* str(n) of a natural number, as characters
RECURSIVE IntToStr(_)
IntToStr(n) ==
    IF n < 10 THEN <<DigitChar[n + 1]>>
    ELSE Append(IntToStr(n \div 10), DigitChar[(n % 10) + 1])

\* the loop of search_docs: (score, chunk) for every chunk of positive overlap
RECURSIVE ScoreChunks(_, _)
ScoreChunks(q_tokens, chs) ==
    IF chs = <<>>
    THEN <<>>
    ELSE LET ch    == Head(chs)
             score == Cardinality(q_tokens \cap ch.tokens)
         IN  (IF score > 0 THEN <<[score |-> score, ch |-> ch]>> ELSE <<>>)
             \o ScoreChunks(q_tokens, Tail(chs))

\* a descending sort that puts e in front of the elements of equal score
InsertByScoreUnstable(sorted, e) ==
    LET before == {i \in 1..Len(sorted) : sorted[i].score > e.score}
        n      == Cardinality(before)
    IN  SubSeq(sorted, 1, n) \o <<e>> \o SubSeq(sorted, n + 1, Len(sorted))

\* where a stable descending sort puts e among the already sorted elements:
\* behind every element whose score is at least e's
InsertByScore(sorted, e) ==
    LET before == {i \in 1..Len(sorted) : sorted[i].score >= e.score}
        n      == Cardinality(before)
    IN  SubSeq(sorted, 1, n) \o <<e>> \o SubSeq(sorted, n + 1, Len(sorted))

\* scored.sort(key=lambda x: x[0], reverse=True): stable, descending by score
RECURSIVE SortByScore(_, _)
SortByScore(sorted, rest) ==
    IF rest = <<>> THEN sorted
    ELSE SortByScore(InsertByScore(sorted, Head(rest)), Tail(rest))

\* s[:k]
SliceTo(s, k) ==
    IF k >= 0
    THEN SubSeq(s, 1, IF k < Len(s) THEN k ELSE Len(s))
    ELSE SubSeq(s, 1, IF Len(s) + k > 0 THEN Len(s) + k ELSE 0)

\* f"[source={ch['source']} score={score}] {ch['text']}"
RenderLine(e) ==
    <<"[source=", e.ch.source, " score=">> \o IntToStr(e.score) \o <<"] ">> \o e.ch.text

\* "\n".join(lines)
RECURSIVE JoinLines(_)
JoinLines(best) ==
    IF best = <<>> THEN <<>>
    ELSE IF Len(best) = 1 THEN RenderLine(best[1])
    ELSE RenderLine(best[1]) \o <<"\n">> \o JoinLines(Tail(best))

NO_RESULTS == Str(<<"NO_RESULTS">>)

\* the return of search_docs when the `if not best` test is left out
SearchReturnNoSentinel(best) == Str(JoinLines(best))

\* lines 58-64 of search_docs: the sentinel, or the joined lines
SearchReturn(best) ==
    IF best = <<>> THEN NO_RESULTS ELSE Str(JoinLines(best))

\* search_docs(query, chunks, top_k): [raised, value]; text.lower() of a query
\* that is no str raises AttributeError
search_docs(q, chs, k) ==
    IF ~IsStr(q)
    THEN [raised |-> "AttributeError", value |-> Unset]
    ELSE LET scored == SortByScore(<<>>, ScoreChunks(Tokenize(q.val), chs))
             best   == SliceTo(scored, k)
         IN  [raised |-> "", value |-> SearchReturn(best)]

-----------------------------------------------------------------------------
(* Router response decoding *)

(* A model response is a sequence of symbols [k, v]: an opening brace, a     *)
(* closing brace, a piece of other text, or one "key": value member of a     *)
(* JSON object (v its value: a str, or None for null).                       *)
Sym(k, v) == [k |-> k, v |-> v]

LBrace == Sym("{", NoneV)
RBrace == Sym("}", NoneV)
OtherText == Sym("text", NoneV)

MemberKeys == {"action", "query", "answer"}

\* the characters of a response, for the messages that quote it
RECURSIVE RawText(_)
RawText(raw) ==
    IF raw = <<>> THEN <<>>
    ELSE LET y == Head(raw)
         IN  (IF y.k \in MemberKeys
              THEN <<y.k, ":">> \o (IF IsStr(y.v) THEN y.v.val ELSE <<"null">>)
              ELSE <<y.k>>)
             \o RawText(Tail(raw))

\* re.search(r"\{.*\}", raw, re.DOTALL): from the first opening brace to the
\* last closing brace behind it (greedy, across line breaks)
ReSearch(raw) ==
    LET opens  == {i \in 1..Len(raw) : raw[i] = LBrace}
        first  == CHOOSE i \in opens : \A j \in opens : i <= j
        closes == {j \in 1..Len(raw) : raw[j] = RBrace /\ j > first}
        last   == CHOOSE j \in closes : \A i \in closes : i <= j
    IN  IF opens = {} \/ closes = {}
        THEN [found |-> FALSE, span |-> <<>>]
        ELSE [found |-> TRUE, span |-> SubSeq(raw, first, last)]

\* a dict, in insertion order: d[k] = v
DictSet(d, k, v) ==
    IF \E i \in 1..Len(d) : d[i].k = k
    THEN [i \in 1..Len(d) |-> IF d[i].k = k THEN Sym(k, v) ELSE d[i]]
    ELSE Append(d, Sym(k, v))

\* d.get(k): None when the key is missing, whatever the default
DictGetNoDefault(d, k, default) ==
    IF \E i \in 1..Len(d) : d[i].k = k
    THEN (CHOOSE y \in {d[i] : i \in 1..Len(d)} : y.k = k).v
    ELSE NoneV

\* d.get(k, default): the default only when the key is missing
DictGet(d, k, default) ==
    IF \E i \in 1..Len(d) : d[i].k = k
    THEN (CHOOSE y \in {d[i] : i \in 1..Len(d)} : y.k = k).v
    ELSE default

RECURSIVE DictOf(_, _)
DictOf(d, members) ==
    IF members = <<>> THEN d
    ELSE DictOf(DictSet(d, Head(members).k, Head(members).v), Tail(members))

\* json.loads(span): a dict when everything between the braces is a member
\* (a repeated key keeps its last value), else JSONDecodeError
JsonLoads(span) ==
    LET inner == SubSeq(span, 2, Len(span) - 1)
    IN  IF \A i \in 1..Len(inner) : inner[i].k \in MemberKeys
        THEN [raised |-> "", value |-> DictOf(<<>>, inner)]
        ELSE [raised |-> "JSONDecodeError", value |-> <<>>]

\* f"{decision}"
RECURSIVE DictRepr(_)
DictRepr(d) ==
    IF d = <<>> THEN <<>>
    ELSE <<Head(d).k, ": ">> \o (IF IsStr(Head(d).v) THEN Head(d).v.val ELSE <<"None">>)
         \o <<", ">> \o DictRepr(Tail(d))

\* parse_router_response(raw) of src/agent.py: a RouterDecision, or ValueError
parse_router_response(raw) ==
    LET match == ReSearch(raw)
        data  == JsonLoads(match.span)
        none  == [action |-> Str(<<>>), query |-> NoneV, answer |-> NoneV]
    IN  IF ~match.found THEN [raised |-> "ValueError", value |-> none]
        ELSE IF data.raised # "" THEN [raised |-> "ValueError", value |-> none]
        ELSE [raised |-> "",
              value  |-> [action |-> DictGet(data.value, "action", Str(<<>>)),
                          query  |-> DictGet(data.value, "query", NoneV),
                          answer |-> DictGet(data.value, "answer", NoneV)]]

NO_SEARCH == Str(<<"NO_SEARCH">>)
SEARCH_DOCS == Str(<<"SEARCH_DOCS">>)

-----------------------------------------------------------------------------
(* Inputs *)

W_rome == <<"R", "o", "m", "e">>
W_bus == <<"b", "u", "s">>
W_zoo == <<"z", "o", "o">>
W_Zoo == <<"Z", "o", "o">>
SP == <<" ">>
BlankLine == <<"\n", "\n">>

\* the lines the user may type
L_exit == <<"e", "x", "i", "t">>
L_QUIT == <<"Q", "U", "I", "T">>
L_ExitPadded == <<" ", "E", "x", "i", "t", " ">>
L_exits == <<"e", "x", "i", "t", "s">>
L_question == W_bus \o SP \o W_Zoo \o <<"?", " ">>
L_empty == <<>>

UserLines == {L_exit, L_QUIT, L_ExitPadded, L_exits, L_question, L_empty}

\* the lines that are the exit command: 'exit' or 'quit' in any case, padded or not
ExitLines == {L_exit, L_QUIT, L_ExitPadded}

\* the contents ./docs may have
DocsEmpty == <<>>
DocsJournal ==
    <<[name |-> "travel_journal.txt", txt |-> TRUE,
       raw  |-> W_bus \o BlankLine \o W_bus \o SP \o W_zoo \o <<".">> \o BlankLine
                \o SP \o BlankLine \o W_Zoo \o <<"!", "\n">> \o BlankLine
                \o W_rome \o BlankLine \o W_zoo \o <<",">> \o W_bus],
      [name |-> "notes.md", txt |-> FALSE, raw |-> W_zoo]>>
DocsTwoFiles ==
    <<[name |-> "a.txt", txt |-> TRUE, raw |-> W_rome \o SP \o W_bus],
      [name |-> "b.txt", txt |-> TRUE,
       raw  |-> W_zoo \o <<"\n">> \o BlankLine \o W_rome \o SP \o W_zoo \o SP \o W_bus]>>

\* what ./docs holds when main starts
DocDirs == {DocsEmpty, DocsJournal}

\* the corpora search_docs is tried on
SearchDocDirs == {DocsEmpty, DocsJournal, DocsTwoFiles}

\* the values a member of the router's JSON object may have
QueryValues == {Str(W_zoo \o SP \o W_bus), NoneV}
AnswerValues == {Str(<<"42">>), NoneV}
ActionValues == {NO_SEARCH, SEARCH_DOCS, Str(<<"FLY">>)}

Symbols ==
    {LBrace, RBrace, OtherText}
    \cup {Sym("action", v) : v \in ActionValues}
    \cup {Sym("query", v) : v \in QueryValues}
    \cup {Sym("answer", v) : v \in AnswerValues}

\* the responses the router call may return
RouterResponses == UNION {[1..n -> Symbols] : n \in 0..MaxRaw}

\* the responses the answer-generation call may return
AnswerResponses == {Str(<<"You took the bus to the zoo (travel_journal.txt).">>),
                    Str(<<"This is not found in the travel journal.">>)}

\* the ways a model call fails: requests' timeout, raise_for_status, a dead connection
ChatFailures == {"Timeout", "HTTPError", "ConnectionError"}

\* the queries tried on search_docs on its own
SearchQueries ==
    {Str(W_zoo \o SP \o W_bus), Str(W_rome), Str(<<>>), Str(<<"?", "!">>),
     Str(W_bus \o <<",">> \o W_Zoo \o SP \o W_rome), Str(<<"x", "y", "z">>), NoneV}

-----------------------------------------------------------------------------
(* The model calls *)

\* chat(messages, config): the reply's text, or the failure requests raises
chat(replies) ==
    {[raised |-> f, value |-> <<>>] : f \in ChatFailures}
    \cup {[raised |-> "", value |-> r] : r \in replies}

-----------------------------------------------------------------------------
(* main and agent_once *)

QuitWords == {<<"e", "x", "i", "t">>, <<"q", "u", "i", "t">>}

\* user_text.lower() in {"exit", "quit"}
IsExitCommand(text) == Lower(text) \in QuitWords

\* the per-turn variables as a turn finds them
TurnReset ==
    /\ router_out' = <<>>
    /\ decision' = <<>>
    /\ query' = Unset
    /\ top_k' = 0
    /\ tool_result' = Unset
    /\ answer_messages' = <<>>
    /\ answer_out' = Unset
    /\ result' = Unset
    /\ exc' = ""
    /\ nChat' = 0
    /\ nSearch' = 0
    /\ printed' = [kind |-> "", text |-> Unset]

Init ==
    /\ pc = "start"
    /\ configExists \in BOOLEAN
    /\ docs \in DocDirs
    /\ chunks = <<>>
    /\ line = <<>>
    /\ user_text = Unset
    /\ state = "NONE"
    /\ router_out = <<>>
    /\ decision = <<>>
    /\ query = Unset
    /\ top_k = 0
    /\ tool_result = Unset
    /\ answer_messages = <<>>
    /\ answer_out = Unset
    /\ result = Unset
    /\ exc = ""
    /\ trail = <<>>
    /\ nChat = 0
    /\ nSearch = 0
    /\ printed = [kind |-> "", text |-> Unset]

\* main, lines 181-188: load_config raises when config.json is missing, then
\* the corpus index is built
Startup ==
    /\ pc = "start"
    /\ IF configExists
       THEN /\ pc' = "input"
            /\ chunks' = load_doc_chunks(docs)
       ELSE /\ pc' = "crashed"
            /\ chunks' = chunks
    /\ UNCHANGED <<configExists, docs, line, user_text, state, router_out, decision,
                   query, top_k, tool_result, answer_messages, answer_out, result,
                   exc, trail, nChat, nSearch, printed>>

\* main, lines 191-196: read a line, leave the loop on the exit command, else
\* enter agent_once
ReadLine ==
    /\ pc = "input"
    /\ \E l \in UserLines :
          /\ line' = l
          /\ user_text' = Str(Strip(l))
          /\ IF IsExitCommand(Strip(l))
             THEN /\ pc' = "exited"
                  /\ state' = "NONE"
                  /\ trail' = <<>>
             ELSE /\ pc' = "call"
                  /\ state' = "ROUTING"
                  /\ trail' = <<"ROUTING">>
    /\ TurnReset
    /\ UNCHANGED <<configExists, docs, chunks>>

\* RouteDecide with an unrecognized action treated as NO_SEARCH
RouteDecideDefaulting(raw) ==
    LET match  == ReSearch(raw)
        data   == JsonLoads(match.span)
        action == DictGet(data.value, "action", NoneV)
    IN  IF ~match.found
        THEN [state    |-> "DONE", decision |-> <<>>,
              result   |-> Str(<<"(Router error) Model did not return JSON:\n">>
                               \o RawText(raw))]
        ELSE IF data.raised # ""
        THEN [state    |-> "DONE", decision |-> <<>>,
              result   |-> Str(<<"(Router error) Invalid JSON in response: ", data.raised,
                                 "\nRaw output:\n">> \o RawText(raw))]
        ELSE IF action = NO_SEARCH
        THEN [state    |-> "DONE", decision |-> data.value,
              result   |-> DictGet(data.value, "answer", Str(<<"(no answer)">>))]
        ELSE IF action = SEARCH_DOCS
        THEN [state    |-> "RETRIEVING", decision |-> data.value, result |-> Unset]
        ELSE [state    |-> "DONE", decision |-> data.value,
              result   |-> DictGet(data.value, "answer", Str(<<"(no answer)">>))]

\* agent_once, lines 150-177, on the router's response: where the turn goes and
\* what it returns there
RouteDecide(raw) ==
    LET match  == ReSearch(raw)
        data   == JsonLoads(match.span)
        action == DictGet(data.value, "action", NoneV)
    IN  IF ~match.found
        THEN [state    |-> "DONE", decision |-> <<>>,
              result   |-> Str(<<"(Router error) Model did not return JSON:\n">>
                               \o RawText(raw))]
        ELSE IF data.raised # ""
        THEN [state    |-> "DONE", decision |-> <<>>,
              result   |-> Str(<<"(Router error) Invalid JSON in response: ", data.raised,
                                 "\nRaw output:\n">> \o RawText(raw))]
        ELSE IF action = NO_SEARCH
        THEN [state    |-> "DONE", decision |-> data.value,
              result   |-> DictGet(data.value, "answer", Str(<<"(no answer)">>))]
        ELSE IF action = SEARCH_DOCS
        THEN [state    |-> "RETRIEVING", decision |-> data.value, result |-> Unset]
        ELSE [state    |-> "DONE", decision |-> data.value,
              result   |-> Str(<<"(Router error) Unknown action: ">>
                               \o DictRepr(data.value))]

\* agent_once, lines 143-164: the router call and the decoding of its response
AgentRoute ==
    /\ pc = "call"
    /\ state = "ROUTING"
    /\ \E r \in chat(RouterResponses) :
          /\ nChat' = nChat + 1
          /\ IF r.raised # ""
             THEN /\ state' = "RAISED"
                  /\ exc' = r.raised
                  /\ UNCHANGED <<router_out, decision, result>>
             ELSE LET next == RouteDecide(r.value)
                  IN  /\ router_out' = r.value
                      /\ state' = next.state
                      /\ decision' = next.decision
                      /\ result' = next.result
                      /\ exc' = exc
          /\ trail' = Append(trail, state')
    /\ UNCHANGED <<pc, configExists, docs, chunks, line, user_text, query, top_k,
                   tool_result, answer_messages, answer_out, nSearch, printed>>

\* the chunks of a (score, chunk) list
Unscored(scored) == [i \in 1..Len(scored) |-> scored[i].ch]

\* AgentRetrieve with a search that leaves only the matching chunks, sorted, in
\* the caller's list
AgentRetrieveInPlace ==
    /\ pc = "call"
    /\ state = "RETRIEVING"
    /\ LET q == DictGet(decision, "query", user_text)
           r == search_docs(q, chunks, TopK)
       IN  /\ query' = q
           /\ top_k' = TopK
           /\ nSearch' = nSearch + 1
           /\ tool_result' = r.value
           /\ exc' = r.raised
           /\ state' = IF r.raised # "" THEN "RAISED" ELSE "ANSWERING"
    /\ trail' = Append(trail, state')
    /\ chunks' = Unscored(SortByScore(<<>>, ScoreChunks(Tokenize(user_text.val), chunks)))
    /\ UNCHANGED <<pc, configExists, docs, line, user_text, router_out,
                   decision, answer_messages, answer_out, result, nChat, printed>>

\* agent_once, lines 165-168: the search
AgentRetrieve ==
    /\ pc = "call"
    /\ state = "RETRIEVING"
    /\ LET q == DictGet(decision, "query", user_text)
           r == search_docs(q, chunks, TopK)
       IN  /\ query' = q
           /\ top_k' = TopK
           /\ nSearch' = nSearch + 1
           /\ tool_result' = r.value
           /\ exc' = r.raised
           /\ state' = IF r.raised # "" THEN "RAISED" ELSE "ANSWERING"
    /\ trail' = Append(trail, state')
    /\ UNCHANGED <<pc, configExists, docs, chunks, line, user_text, router_out,
                   decision, answer_messages, answer_out, result, nChat, printed>>

\* the user-turn content built from the router's query instead of the question
AnswerContentFromQuery(user, q, tool) ==
    <<"Question: ">> \o q.val \o <<"\n\nRetrieved:\n">> \o tool.val

\* f"Question: {user_text}\n\nRetrieved:\n{tool_result}"
AnswerContent(user, q, tool) ==
    <<"Question: ">> \o user.val \o <<"\n\nRetrieved:\n">> \o tool.val

\* agent_once, lines 170-175: the answer-generation call on the question and
\* the tool's result
AgentAnswer ==
    /\ pc = "call"
    /\ state = "ANSWERING"
    /\ answer_messages' = AnswerContent(user_text, query, tool_result)
    /\ \E r \in chat(AnswerResponses) :
          /\ nChat' = nChat + 1
          /\ IF r.raised # ""
             THEN /\ state' = "RAISED"
                  /\ exc' = r.raised
                  /\ UNCHANGED <<answer_out, result>>
             ELSE /\ state' = "DONE"
                  /\ answer_out' = r.value
                  /\ result' = r.value
                  /\ exc' = exc
    /\ trail' = Append(trail, state')
    /\ UNCHANGED <<pc, configExists, docs, chunks, line, user_text, router_out,
                   decision, query, top_k, tool_result, nSearch, printed>>

\* Finish with `except Exception: pass`: a failed turn prints nothing
FinishSilent ==
    /\ pc = "call"
    /\ state \in {"DONE", "RAISED"}
    /\ printed' = IF state = "DONE"
                  THEN [kind |-> "Agent", text |-> result]
                  ELSE printed
    /\ pc' = "input"
    /\ state' = "NONE"
    /\ UNCHANGED <<configExists, docs, chunks, line, user_text, router_out, decision,
                   query, top_k, tool_result, answer_messages, answer_out, result,
                   exc, trail, nChat, nSearch>>

\* Finish without the try/except: the exception of a failed turn ends the process
FinishNoCatch ==
    /\ pc = "call"
    /\ state \in {"DONE", "RAISED"}
    /\ printed' = IF state = "DONE"
                  THEN [kind |-> "Agent", text |-> result]
                  ELSE [kind |-> "ERROR", text |-> Str(<<exc>>)]
    /\ pc' = IF state = "DONE" THEN "input" ELSE "crashed"
    /\ state' = "NONE"
    /\ UNCHANGED <<configExists, docs, chunks, line, user_text, router_out, decision,
                   query, top_k, tool_result, answer_messages, answer_out, result,
                   exc, trail, nChat, nSearch>>

\* main, lines 195-199: print the answer, or the exception the turn raised, and
\* go back to reading
Finish ==
    /\ pc = "call"
    /\ state \in {"DONE", "RAISED"}
    /\ printed' = IF state = "DONE"
                  THEN [kind |-> "Agent", text |-> result]
                  ELSE [kind |-> "ERROR", text |-> Str(<<exc>>)]
    /\ pc' = "input"
    /\ state' = "NONE"
    /\ UNCHANGED <<configExists, docs, chunks, line, user_text, router_out, decision,
                   query, top_k, tool_result, answer_messages, answer_out, result,
                   exc, trail, nChat, nSearch>>

Next ==
    \/ Startup
    \/ ReadLine
    \/ AgentRoute
    \/ AgentRetrieve
    \/ AgentAnswer
    \/ Finish

Spec == Init /\ [][Next]_vars

-----------------------------------------------------------------------------
(* search_docs on its own *)

InitSearch ==
    /\ pc = "search"
    /\ configExists = TRUE
    /\ docs \in SearchDocDirs
    /\ chunks = load_doc_chunks(docs)
    /\ line = <<>>
    /\ user_text = Unset
    /\ state = "NONE"
    /\ router_out = <<>>
    /\ decision = <<>>
    /\ query \in SearchQueries
    /\ top_k \in 0..MaxTopK
    /\ tool_result = Unset
    /\ answer_messages = <<>>
    /\ answer_out = Unset
    /\ result = Unset
    /\ exc = ""
    /\ trail = <<>>
    /\ nChat = 0
    /\ nSearch = 0
    /\ printed = [kind |-> "", text |-> Unset]

\* one call of search_docs(query, chunks, top_k)
ApplySearch ==
    /\ pc = "search"
    /\ nSearch = 0
    /\ LET r == search_docs(query, chunks, top_k)
       IN  /\ tool_result' = r.value
           /\ exc' = r.raised
    /\ nSearch' = 1
    /\ UNCHANGED <<pc, configExists, docs, chunks, line, user_text, state, router_out,
                   decision, query, top_k, answer_messages, answer_out, result,
                   trail, nChat, printed>>

NextSearch == ApplySearch

SpecSearch == InitSearch /\ [][NextSearch]_vars

-----------------------------------------------------------------------------
(* What the claims speak of, stated on the inputs and not through the code *)

Min(a, b) == IF a < b THEN a ELSE b

\* the overlap of a query with the i-th chunk
OverlapScore(q, chs, i) == Cardinality(Tokenize(q.val) \cap chs[i].tokens)

\* the chunks of positive score
Matching(q, chs) == {i \in 1..Len(chs) : OverlapScore(q, chs, i) > 0}

\* i is ranked before j: a higher score, or the same score and earlier in the corpus
RankedBefore(q, chs, i, j) ==
    \/ OverlapScore(q, chs, i) > OverlapScore(q, chs, j)
    \/ OverlapScore(q, chs, i) = OverlapScore(q, chs, j) /\ i < j

\* the first k of the matching chunks in rank order, with their scores
RankedTop(q, chs, k) ==
    LET pos     == Matching(q, chs)
        rank(i) == 1 + Cardinality({j \in pos : RankedBefore(q, chs, j, i)})
        at(r)   == CHOOSE i \in pos : rank(i) = r
    IN  [r \in 1..Min(k, Cardinality(pos)) |->
            [score |-> OverlapScore(q, chs, at(r)), ch |-> chs[at(r)]]]

\* the first segment of a text ("" when it has none)
FirstSeg(v) == IF v.val = <<>> THEN "" ELSE v.val[1]

\* the lines of a search result
LineCount(res) == Cardinality({i \in 1..Len(res.val) : res.val[i] = "[source="})

\* the router call of this turn returned a response
RouterReplied == Len(trail) >= 2 /\ ~(Len(trail) = 2 /\ exc \in ChatFailures)

\* the response has no opening brace with a closing brace behind it
NoBraceSpan(raw) ==
    ~ \E i, j \in 1..Len(raw) : i < j /\ raw[i] = LBrace /\ raw[j] = RBrace

\* the symbols strictly between the first opening and the last closing brace
InsideBraces(raw) ==
    {a \in 1..Len(raw) :
        /\ \E i \in 1..(a - 1) : raw[i] = LBrace
        /\ \E j \in (a + 1)..Len(raw) : raw[j] = RBrace}

\* the span is there and is not a JSON object
BadJson(raw) ==
    /\ ~NoBraceSpan(raw)
    /\ \E a \in InsideBraces(raw) : raw[a].k \notin MemberKeys

\* the span is a JSON object
GoodJson(raw) == ~NoBraceSpan(raw) /\ ~BadJson(raw)

\* the object has the key
Supplies(raw, key) == \E a \in InsideBraces(raw) : raw[a].k = key

\* the value the object gives the key: that of its last occurrence
Supplied(raw, key) ==
    LET at == {a \in InsideBraces(raw) : raw[a].k = key}
    IN  raw[CHOOSE a \in at : \A b \in at : b <= a].v

\* the object's action
ActionIs(raw, v) == GoodJson(raw) /\ Supplies(raw, "action") /\ Supplied(raw, "action") = v

UnknownAction(raw) ==
    GoodJson(raw) /\ ~ActionIs(raw, NO_SEARCH) /\ ~ActionIs(raw, SEARCH_DOCS)

AllowedTrails ==
    {<<"ROUTING">>, <<"ROUTING", "DONE">>, <<"ROUTING", "RETRIEVING">>,
     <<"ROUTING", "RETRIEVING", "ANSWERING">>,
     <<"ROUTING", "RETRIEVING", "ANSWERING", "DONE">>}

-----------------------------------------------------------------------------
(* The claims *)

\* C1: in a turn whose model calls all return a response, the turn goes only
\* ROUTING->DONE, ROUTING->RETRIEVING, RETRIEVING->ANSWERING, ANSWERING->DONE,
\* ends in DONE with a string as its result, and makes at most one search and
\* at most two model calls.
C1_TurnEndsDoneWithString ==
    (trail # <<>> /\ exc \notin ChatFailures) =>
        /\ trail \in AllowedTrails
        /\ nSearch <= 1
        /\ nChat <= 2
        /\ (trail[Len(trail)] = "DONE" => IsStr(result))

C3_RouterFailure ==
    RouterReplied =>
        /\ (NoBraceSpan(router_out) \/ BadJson(router_out) \/ UnknownAction(router_out)) =>
              /\ trail = <<"ROUTING", "DONE">>
              /\ IsStr(result)
              /\ exc = ""
              /\ nSearch = 0
              /\ nChat = 1
              /\ tool_result = Unset
              /\ answer_out = Unset
        /\ NoBraceSpan(router_out) =>
              result = Str(<<"(Router error) Model did not return JSON:\n">>
                           \o RawText(router_out))
        /\ BadJson(router_out) =>
              FirstSeg(result) = "(Router error) Invalid JSON in response: "
        /\ UnknownAction(router_out) =>
              FirstSeg(result) = "(Router error) Unknown action: "
        /\ (NoBraceSpan(router_out) \/ BadJson(router_out))
              <=> parse_router_response(router_out).raised = "ValueError"
        /\ (GoodJson(router_out) /\ ~Supplies(router_out, "action")) =>
              parse_router_response(router_out).value.action
                  \notin {NO_SEARCH, SEARCH_DOCS}

C3_Witness ==
    /\ pc = "call"
    /\ state = "DONE"
    /\ BadJson(router_out)
    /\ Len(router_out) = 4
    /\ router_out[1] = LBrace /\ router_out[2] = RBrace
    /\ router_out[3] = LBrace /\ router_out[4] = RBrace
    /\ FirstSeg(result) = "(Router error) Invalid JSON in response: "

\* C4: a search whose decision supplies no query uses the user's text, and
\* every search_docs call receives a string as its query.
C4_SearchQueryIsString ==
    nSearch >= 1 =>
        /\ ~Supplies(router_out, "query") => query = user_text
        /\ IsStr(query)

\* C5 as claimed: a turn in which a model call failed ends in DONE with a string
\* returned by agent_once.
C5_FailureReturnedAsString ==
    (exc \in ChatFailures /\ trail # <<>>) =>
        /\ trail[Len(trail)] = "DONE"
        /\ IsStr(result)

\* C5 as amended: a failed model call leaves agent_once as an exception, the
\* turn returning nothing; main catches it, prints it as the turn's ERROR text
\* and goes back to reading.
C5_FailureCaughtByMain ==
    (exc \in ChatFailures /\ trail # <<>>) =>
        /\ trail[Len(trail)] = "RAISED"
        /\ result = Unset
        /\ \/ pc = "call" /\ state = "RAISED"
           \/ /\ pc = "input"
              /\ state = "NONE"
              /\ printed = [kind |-> "ERROR", text |-> Str(<<exc>>)]

C5_Witness ==
    /\ exc = "Timeout"
    /\ trail = <<"ROUTING", "RETRIEVING", "ANSWERING", "RAISED">>
    /\ pc = "input"
    /\ printed.kind = "ERROR"

C7_RankedTopK ==
    (nSearch = 1 /\ IsStr(query)) =>
        LET best == RankedTop(query, chunks, top_k)
        IN  /\ tool_result = IF best = <<>> THEN NO_RESULTS ELSE Str(JoinLines(best))
            /\ LineCount(tool_result) <= top_k
            /\ LineCount(tool_result) <= Cardinality(Matching(query, chunks))

C7_Witness ==
    /\ pc = "search"
    /\ nSearch = 1
    /\ IsStr(query)
    /\ top_k = 3
    /\ Cardinality(Matching(query, chunks)) > top_k
    /\ \E i, j \in Matching(query, chunks) :
          /\ i < j
          /\ OverlapScore(query, chunks, i) = OverlapScore(query, chunks, j)
          /\ \E m \in Matching(query, chunks) :
                i < m /\ m < j /\ OverlapScore(query, chunks, m) < OverlapScore(query, chunks, i)
    /\ LineCount(tool_result) = 3

\* C8 as claimed: search_docs returns NO_RESULTS when no chunk has a positive
\* score, never an empty text, and a non-empty ranked text, not the sentinel,
\* whenever some chunk has a positive score.
C8_SentinelIffNoMatch ==
    (nSearch = 1 /\ IsStr(query)) =>
        /\ Matching(query, chunks) = {} => tool_result = NO_RESULTS
        /\ tool_result.val # <<>>
        /\ Matching(query, chunks) # {} =>
              (tool_result # NO_RESULTS /\ LineCount(tool_result) >= 1)

\* C8 as amended: search_docs returns NO_RESULTS when no chunk has a positive
\* score, never an empty text, and a non-empty ranked text, not the sentinel,
\* whenever some chunk has a positive score and top_k is at least 1; with
\* top_k = 0 it returns NO_RESULTS although chunks match.
C8_SentinelIffNothingKept ==
    (nSearch = 1 /\ IsStr(query)) =>
        /\ Matching(query, chunks) = {} => tool_result = NO_RESULTS
        /\ tool_result.val # <<>>
        /\ (Matching(query, chunks) # {} /\ top_k >= 1) =>
              (tool_result # NO_RESULTS /\ LineCount(tool_result) >= 1)
        /\ top_k = 0 => tool_result = NO_RESULTS

C8_Witness ==
    /\ pc = "search"
    /\ nSearch = 1
    /\ chunks # <<>>
    /\ top_k = 1
    /\ Cardinality(Matching(query, chunks)) >= 2
    /\ LineCount(tool_result) = 1

C10_CorpusReadOnly ==
    [][/\ (pc # "start") => chunks' = chunks
       /\ (pc = "start" /\ pc' = "input") =>
             /\ chunks' = load_doc_chunks(docs)
             /\ \A i \in 1..Len(chunks') : chunks'[i].tokens = Tokenize(chunks'[i].text)
       /\ (pc = "input" /\ pc' = "call") =>
             /\ state' = "ROUTING" /\ trail' = <<"ROUTING">>
             /\ router_out' = <<>> /\ decision' = <<>> /\ query' = Unset
             /\ tool_result' = Unset /\ answer_messages' = <<>> /\ answer_out' = Unset
             /\ result' = Unset /\ exc' = "" /\ nChat' = 0 /\ nSearch' = 0]_vars

C10_Witness ==
    /\ pc = "input"
    /\ nSearch = 1
    /\ printed.kind = "Agent"
    /\ Len(chunks) = 5
    /\ tool_result # NO_RESULTS

====
